---- MODULE Spec2Model ----
(***************************************************************************)
(* Model of frontend/api_integration.js: the prediction client that asks   *)
(* the Flask backend for a delivery-time estimate (POST /predict) and      *)
(* falls back to the local heuristic calculateDeliveryTime when the remote *)
(* call fails.                                                             *)
(*                                                                         *)
(* Numbers.  JavaScript numbers are modelled as integers at a fixed scale: *)
(*   - a distance is a number of tenths of a kilometre (50 is 5.0 km);     *)
(*   - the weather and peak-hour multipliers are hundredths (105 is 1.05), *)
(*     the traffic multipliers are tenths (12 is 1.2);                     *)
(*   - baseTime is kept as a numerator over BaseScale after the three      *)
(*     multiplications, less the rounding error of the doubles where that  *)
(*     error decides what Math.round returns (DoubleLoss);                 *)
(*   - NaN is a reserved value that every arithmetic operator propagates   *)
(*     and every comparison answers FALSE on.                              *)
(* A missing table key is the string "undefined" for the impact strings    *)
(* and NaN for a multiplier (undefined coerces to NaN in a product).       *)
(***************************************************************************)
EXTENDS Integers, Sequences, FiniteSets, TLC

VARIABLES
    button,     \* .predict-btn: [text, disabled]
    inv,        \* one record per invocation of predictDeliveryTime
    sink,       \* the result elements of the page (the presentation sink)
    timers,     \* pending setTimeout and setInterval timers, in creation order
    leaflet,    \* the globals map and routeLayer: [map, routeLayer]
    health,     \* testBackendConnection: "notStarted", "pending", "ok", "notOk", "failed"
    calc        \* harness of the pure function: [args, out]

vars == <<button, inv, sink, timers, leaflet, health, calc>>

-----------------------------------------------------------------------------
(* Bounds of the model *)

\* distances 0 .. MaxDistance tenths of a kilometre (0.0 km .. 13.0 km)
MaxDistance == 130
\* item counts 0 .. MaxItems
MaxItems == 3
\* the milliseconds that pass between two events other than timer callbacks
ElapseMs == 512
\* the number of invocations of predictDeliveryTime in a run of SpecOverlap
NumInvocations == 2

-----------------------------------------------------------------------------
(* JavaScript numbers *)

NaN == 0 - 999999999

IsNaN(x) == x = NaN

Add(a, b) == IF IsNaN(a) \/ IsNaN(b) THEN NaN ELSE a + b

Sub(a, b) == IF IsNaN(a) \/ IsNaN(b) THEN NaN ELSE a - b

Mul(a, b) == IF IsNaN(a) \/ IsNaN(b) THEN NaN ELSE a * b

\* a > b as JavaScript evaluates it: false when either side is NaN
Gt(a, b) == ~IsNaN(a) /\ ~IsNaN(b) /\ a > b

\* Math.round of the exact fraction num/den: floor(num/den + 1/2)
MathRound(num, den) ==
    IF IsNaN(num) THEN NaN ELSE (2 * num + den) \div (2 * den)

-----------------------------------------------------------------------------
(* calculateDeliveryTime, lines 139-197 *)

\* denominator of baseTime after the three multiplications:
\* tenths of km * hundredths * tenths * hundredths
BaseScale == 10 * 100 * 10 * 100

\* a multiplier table that lacks the entry for Cloudy
WeatherMultipliersNoCloudy(weather) ==
    CASE weather = "Clear" -> 100
      [] weather = "Hot" -> 110
      [] weather = "Rain" -> 130
      [] weather = "Heavy Rain" -> 160
      [] OTHER -> NaN

weatherMultipliers(weather) ==
    CASE weather = "Clear" -> 100
      [] weather = "Cloudy" -> 105
      [] weather = "Hot" -> 110
      [] weather = "Rain" -> 130
      [] weather = "Heavy Rain" -> 160
      [] OTHER -> NaN

\* a multiplier table whose High entry is below its Medium entry
TrafficMultipliersDip(traffic) ==
    CASE traffic = "Low" -> 10
      [] traffic = "Medium" -> 12
      [] traffic = "High" -> 11
      [] traffic = "Very High" -> 18
      [] OTHER -> NaN

trafficMultipliers(traffic) ==
    CASE traffic = "Low" -> 10
      [] traffic = "Medium" -> 12
      [] traffic = "High" -> 15
      [] traffic = "Very High" -> 18
      [] OTHER -> NaN

PeakHours == {12, 13, 14, 19, 20, 21}

\* a heuristic that knows the lunch peak only
IsPeakHourLunch(hour) == hour \in {12, 13, 14}

isPeakHour(hour) == hour \in PeakHours

\* a heuristic that forgets the peak-hour surcharge
PeakMultiplierNone(hour) == 100

\* the factor applied to baseTime at line 163-165, in hundredths
PeakMultiplier(hour) == IF isPeakHour(hour) THEN 115 ELSE 100

\* an impact table that lacks the entry for Hot
WeatherImpactsNoHot(weather) ==
    CASE weather = "Clear" -> "Minimal"
      [] weather = "Cloudy" -> "Low"
      [] weather = "Rain" -> "Moderate"
      [] weather = "Heavy Rain" -> "High"
      [] OTHER -> "undefined"

weatherImpacts(weather) ==
    CASE weather = "Clear" -> "Minimal"
      [] weather = "Cloudy" -> "Low"
      [] weather = "Hot" -> "Low"
      [] weather = "Rain" -> "Moderate"
      [] weather = "Heavy Rain" -> "High"
      [] OTHER -> "undefined"

trafficImpacts(traffic) ==
    CASE traffic = "Low" -> "Minimal"
      [] traffic = "Medium" -> "Moderate"
      [] traffic = "High" -> "Significant"
      [] traffic = "Very High" -> "Very High"
      [] OTHER -> "undefined"

\* a heuristic that takes the distance penalty from 10.0 km on
ConfidenceFromTen(distance, weather, traffic) ==
    85 - (IF weather = "Heavy Rain" THEN 10 ELSE 0)
       - (IF traffic = "Very High" THEN 8 ELSE 0)
       - (IF Gt(distance, 99) THEN 5 ELSE 0)

\* lines 169-172
Confidence(distance, weather, traffic) ==
    85 - (IF weather = "Heavy Rain" THEN 10 ELSE 0)
       - (IF traffic = "Very High" THEN 8 ELSE 0)
       - (IF Gt(distance, 100) THEN 5 ELSE 0)

\* line 194
DistanceFactor(distance) ==
    IF Gt(distance, 70) THEN "High"
    ELSE IF Gt(distance, 40) THEN "Medium"
    ELSE "Low"

\* The rounding error of the chain of double multiplications, in units of
\* 1/BaseScale.  Every product of the bounded domain is within 1e-13 of its
\* exact value, which moves it across a rounding boundary of Math.round in
\* one case only: 12.5 * 4 * 1.0 * 1.8 * 1.15 is 103.49999999999999 in
\* IEEE-754 double arithmetic, not 103.5 (and stays below the half when
\* prepTime, at most 24, is added).
DoubleLoss(distance, wm, tm, pm) ==
    IF distance = 125 /\ wm = 100 /\ tm = 18 /\ pm = 115 THEN 1 ELSE 0

\* distance * 4 * wm * tm * pm as the doubles multiply, left to right:
\* the numerator of the product over BaseScale
DoubleProduct(distance, wm, tm, pm) ==
    Sub(Mul(Mul(Mul(Mul(distance, 4), wm), tm), pm),
        DoubleLoss(distance, wm, tm, pm))

\* lines 140, 160-165: the numerator of baseTime over BaseScale
BaseTime(distance, weather, traffic, hour) ==
    DoubleProduct(distance, weatherMultipliers(weather),
                  trafficMultipliers(traffic), PeakMultiplier(hour))

\* line 141
PrepTime(items) == Add(12, Mul(items, 2))

\* line 167: Math.round(prepTime + baseTime)
TotalTime(distance, weather, traffic, hour, items) ==
    MathRound(Add(Mul(PrepTime(items), BaseScale),
                  BaseTime(distance, weather, traffic, hour)),
              BaseScale)

calculateDeliveryTime(distance, weather, traffic, hour, items) ==
    [time |-> TotalTime(distance, weather, traffic, hour, items),
     confidence |-> Confidence(distance, weather, traffic),
     weatherImpact |-> weatherImpacts(weather),
     trafficImpact |-> trafficImpacts(traffic),
     distanceFactor |-> DistanceFactor(distance),
     peakHour |-> IF isPeakHour(hour) THEN "Yes (+15%)" ELSE "No"]

-----------------------------------------------------------------------------------------------------------------------------------------------------
(* Timers: setTimeout (lines 79, 118) and setInterval (line 206) *)

\* the content of a result element that this script has not written yet
Blank == 0 - 999999998

\* left is the time in ms until the timer is due; fired is the time within
\* the current window at which the timer last ran (-1: it has not run)
NoTimer ==
    [kind |-> "none", owner |-> 0, left |-> 0, percent |-> 0, offline |-> FALSE,
     endv |-> 0, current |-> 0, increment |-> 0, duration |-> 1,
     fired |-> 0 - 1, cleared |-> FALSE]

\* setTimeout(() => { confidenceFill, confidenceText }, delay): lines 79-82, 118-121
setTimeout(tm, owner, percent, offline, delay) ==
    Append(tm, [NoTimer EXCEPT !.kind = "timeout", !.owner = owner, !.left = delay,
                               !.percent = percent, !.offline = offline])

\* animateValue(id, start, end, duration), lines 200-206: current and increment
\* are kept as numerators over duration, so increment = range / (duration / 16)
\* is (end - start) * 16
animateValue(tm, owner, start, end, duration) ==
    Append(tm, [NoTimer EXCEPT !.kind = "interval", !.owner = owner, !.left = 16,
                               !.endv = end, !.duration = duration,
                               !.current = Mul(start, duration),
                               !.increment = Mul(Sub(end, start), 16)])

\* line 208, after current += increment (c) against end (e)
IntervalReached(increment, c, e) ==
    \/ (Gt(increment, 0) /\ ~IsNaN(c) /\ ~IsNaN(e) /\ c >= e)
    \/ (Gt(0, increment) /\ ~IsNaN(c) /\ ~IsNaN(e) /\ c =< e)

\* lines 207-212, one run of the interval callback at time t.left of the
\* window: the timer clears itself or is due again 16 ms later
IntervalCallback(t) ==
    LET c == Add(t.current, t.increment)
        e == Mul(t.endv, t.duration)
        reached == IntervalReached(t.increment, c, e)
    IN  [t EXCEPT !.current = IF reached THEN e ELSE c,
                  !.cleared = reached,
                  !.fired = t.left,
                  !.left = t.left + 16]

\* what #timeValue shows after the callback of t ran: Math.round(current)
IntervalText(t) == MathRound(t.current, t.duration)

\* the timer t over a window of ms milliseconds: a timeout that is due runs
\* once, an interval runs at each of its due times until it clears itself
RECURSIVE RunTimer(_, _)
RunTimer(t, ms) ==
    IF t.left > ms \/ t.cleared THEN t
    ELSE IF t.kind = "timeout"
         THEN [t EXCEPT !.fired = t.left, !.cleared = TRUE]
         ELSE CHOOSE r \in {RunTimer(u, ms) : u \in {IntervalCallback(t)}} : TRUE

\* the timer of `kind` whose callback ran last in the window, 0 if none ran:
\* the latest due time, the timer created last among equals
LastFired(tm, kind) ==
    LET ran == {k \in 1..Len(tm) : tm[k].kind = kind /\ tm[k].fired >= 0}
    IN  IF ran = {} THEN 0
        ELSE CHOOSE k \in ran :
                 \A j \in ran : \/ tm[j].fired < tm[k].fired
                                \/ (tm[j].fired = tm[k].fired /\ j =< k)

\* the timers that stay armed after a window of ms milliseconds
Rearm(t, ms) == [t EXCEPT !.left = t.left - ms, !.fired = 0 - 1]

\* The browser runs every timer callback that is due within the next ms
\* milliseconds, in the order of the due times: the page st after the window.
RunTimers(st, ms) ==
    LET ran == [k \in 1..Len(st.timers) |-> RunTimer(st.timers[k], ms)]
        a == LastFired(ran, "interval")
        c == LastFired(ran, "timeout")
    IN  [st EXCEPT
           !.timers = [k \in 1..Len(SelectSeq(ran, LAMBDA t : ~t.cleared)) |->
                          Rearm(SelectSeq(ran, LAMBDA t : ~t.cleared)[k], ms)],
           !.sink.timeValue = IF a = 0 THEN @ ELSE IntervalText(ran[a]),
           !.sink.confidenceFill = IF c = 0 THEN @ ELSE ran[c].percent,
           !.sink.confidenceText =
               IF c = 0 THEN @
               ELSE [percent |-> ran[c].percent, offline |-> ran[c].offline]]

-----
(* updateMap, lines 217-274 *)

\* Line 245-246 makes the delivery point from distance; Leaflet rejects a NaN
\* coordinate (L.marker at line 263 throws "Invalid LatLng object"), after the
\* map was created (230-237) and the old route removed (239-241) and before
\* routeLayer is assigned (266).
updateMap(lf, distance) ==
    IF IsNaN(distance)
    THEN [leaflet |-> [map |-> TRUE,
                       routeLayer |-> IF lf.routeLayer = "none" THEN "none"
                                      ELSE "removed"],
          threw |-> TRUE]
    ELSE [leaflet |-> [map |-> TRUE, routeLayer |-> "shown"], threw |-> FALSE]

-----------------------------------------------------------------------------
(* predictDeliveryTime, lines 6-136 *)

\* the keys of the object literal of lines 23-34
RestaurantNames ==
    {"Biryani Blues", "Faasos", "Behrouz Biryani", "Oven Story Pizza",
     "The Bowl Company", "Lunch Box", "Mandarin Oak", "Firangi Bake", "EatFit",
     "Box8"}

\* names that every object literal inherits from Object.prototype: methods,
\* and the prototype itself under "__proto__"
InheritedMethods == {"constructor", "toString", "valueOf", "hasOwnProperty"}

\* lines 23-34 and the lookup restaurantCuisine[restaurant] of line 45: the
\* entry of the literal, else what the prototype chain holds under that name
\* ("function", "object"), else undefined
restaurantCuisine(restaurant) ==
    CASE restaurant = "Biryani Blues" -> "Biryani"
      [] restaurant = "Faasos" -> "Fast Food"
      [] restaurant = "Behrouz Biryani" -> "Biryani"
      [] restaurant = "Oven Story Pizza" -> "Italian"
      [] restaurant = "The Bowl Company" -> "Healthy"
      [] restaurant = "Lunch Box" -> "North Indian"
      [] restaurant = "Mandarin Oak" -> "Chinese"
      [] restaurant = "Firangi Bake" -> "Italian"
      [] restaurant = "EatFit" -> "Healthy"
      [] restaurant = "Box8" -> "North Indian"
      [] restaurant \in InheritedMethods -> "function"
      [] restaurant = "__proto__" -> "object"
      [] OTHER -> "undefined"

\* lines 37-49, without city and order_value (copied from the form, read by
\* no other line) and the two Math.random() fields
Payload(form) ==
    [restaurant |-> form.restaurant,
     distance |-> form.distance,
     num_items |-> form.numItems,
     weather |-> form.weather,
     traffic |-> form.traffic,
     cuisine |-> IF restaurantCuisine(form.restaurant) = "undefined"
                 THEN "North Indian"
                 ELSE restaurantCuisine(form.restaurant),
     prep_time |-> Add(12, Mul(form.numItems, 2))]

\* what JSON.stringify writes for a non-finite number
Null == 0 - 999999997

JSONNumber(x) == IF IsNaN(x) THEN Null ELSE x

\* line 58, JSON.stringify(payload), as the fields of the body that the
\* server parses: a non-finite number is written as null, a property whose
\* value is a function is left out ("absent"), an object without enumerable
\* properties is written as {}
JSONstringify(payload) ==
    [restaurant |-> payload.restaurant,
     distance |-> JSONNumber(payload.distance),
     num_items |-> JSONNumber(payload.num_items),
     weather |-> payload.weather,
     traffic |-> payload.traffic,
     cuisine |-> CASE payload.cuisine = "function" -> "absent"
                   [] payload.cuisine = "object" -> "{}"
                   [] OTHER -> payload.cuisine,
     prep_time |-> JSONNumber(payload.prep_time)]

\* a handler that calls the backend only after the health probe succeeded
IssueFetchIfHealthy(n) == IF health = "ok" THEN n + 1 ELSE n

\* line 53: one more call of fetch(API_BASE_URL + '/predict')
IssueFetch(n) == n + 1

\* a catch block that calls fetch again
CatchRetries(n) == n + 1

\* lines 104-129: the catch block calls fetch no more
CatchFetches(n) == n

\* line 61: if (!response.ok) throw
ResponseFailed(ok) == ~ok

\* a client that does not look at the success flag
ResultFailedNever(result) == FALSE

\* line 67: if (!result.success) throw
ResultFailed(result) == ~result.success

\* line 76: the end value handed to animateValue on the remote path
RemoteTime(result) == result.estimated_time

\* a client that clamps the remote confidence to 0..100
RemoteConfidenceClamped(result) ==
    IF result.confidence > 100 THEN 100
    ELSE IF result.confidence < 0 THEN 0
    ELSE result.confidence

\* lines 80-81: the percentage written on the remote path
RemoteConfidence(result) == result.confidence

\* a catch block that forgets the offline penalty
FallbackConfidenceNoPenalty(fallbackPrediction) == fallbackPrediction.confidence

\* lines 119-120: the percentage written on the fallback path
FallbackConfidence(fallbackPrediction) == Sub(fallbackPrediction.confidence, 10)

NoFactors ==
    [weather_impact |-> "", traffic_impact |-> "", distance_factor |-> "",
     peak_hour |-> ""]

NoResult ==
    [success |-> FALSE, hasFactors |-> FALSE, estimated_time |-> 0,
     confidence |-> 0, factors |-> NoFactors]

NoForm ==
    [restaurant |-> "", distance |-> 0, numItems |-> 0, weather |-> "",
     traffic |-> ""]

\* an invocation that has not started.  form, payload, response ("none", "ok",
\* "notOk": response.ok), result and currentHour are the locals of the call;
\* body is the request body handed to fetch; probe is a history field that
\* no line of the script reads, the state of testBackendConnection when the
\* invocation started;
\* parsed says that result was assigned; stalled that the remote call hangs;
\* fetches counts the calls of fetch; failure is what sent control to the
\* catch block; ranTry and ranCatch say which block wrote the page; threw
\* says that the call ended by throwing.
IdleInvocation ==
    [pc |-> "idle", originalText |-> "", form |-> NoForm,
     payload |-> Payload(NoForm), body |-> JSONstringify(Payload(NoForm)),
     probe |-> "pending", fetches |-> 0, stalled |-> FALSE,
     response |-> "none", parsed |-> FALSE, result |-> NoResult,
     failure |-> "none", currentHour |-> 0, ranTry |-> FALSE,
     ranCatch |-> FALSE, threw |-> FALSE]

\* lines 72-94, the rest of the try block after a success response: st is
\* [sink, timers, leaflet, threw].  result.factors of a response without
\* factors is undefined, and line 88 throws a TypeError.
TryDisplay(st, i, result, distance) ==
    LET s1 == [st EXCEPT
                 !.sink.active = TRUE,
                 !.timers = setTimeout(
                                animateValue(st.timers, i, 0, RemoteTime(result), 1000),
                                i, RemoteConfidence(result), FALSE, 500),
                 !.sink.routeDistance = distance]
        s2 == [s1 EXCEPT
                 !.sink.weatherImpact = result.factors.weather_impact,
                 !.sink.trafficImpact = result.factors.traffic_impact,
                 !.sink.distanceFactor = result.factors.distance_factor,
                 !.sink.peakHour = result.factors.peak_hour]
        m == updateMap(s2.leaflet, distance)
    IN  IF ~result.hasFactors
        THEN [s1 EXCEPT !.threw = TRUE]
        ELSE [s2 EXCEPT !.leaflet = m.leaflet, !.threw = m.threw]

\* lines 104-129, the catch block
CatchBlock(st, i, form, currentHour) ==
    LET fallbackPrediction ==
            calculateDeliveryTime(form.distance, form.weather, form.traffic,
                                  currentHour, form.numItems)
        s1 == [st EXCEPT
                 !.sink.active = TRUE,
                 !.timers = setTimeout(
                                animateValue(st.timers, i, 0, fallbackPrediction.time, 1000),
                                i, FallbackConfidence(fallbackPrediction), TRUE, 500),
                 !.sink.routeDistance = form.distance,
                 !.sink.weatherImpact = fallbackPrediction.weatherImpact,
                 !.sink.trafficImpact = fallbackPrediction.trafficImpact,
                 !.sink.distanceFactor = fallbackPrediction.distanceFactor,
                 !.sink.peakHour = fallbackPrediction.peakHour]
        m == updateMap(s1.leaflet, form.distance)
    IN  [s1 EXCEPT !.leaflet = m.leaflet, !.threw = m.threw]

Page == [sink |-> sink, timers |-> timers, leaflet |-> leaflet, threw |-> FALSE]

\* lines 131-135, the finally block
Finally(i) == button' = [text |-> inv[i].originalText, disabled |-> FALSE]

\* the catch block and the finally block run from the page st after the
\* failure `kind`, with the locals assigned so far; currentHour is what
\* new Date().getHours() answers
Fallback(i, kind, st, locals, currentHour) ==
    \E after \in {CatchBlock([st EXCEPT !.threw = FALSE], i, inv[i].form, currentHour)} :
        /\ sink' = after.sink
        /\ timers' = after.timers
        /\ leaflet' = after.leaflet
        /\ inv' = [inv EXCEPT ![i] = [@ EXCEPT !.pc = "done", !.failure = kind,
                                               !.response = locals.response,
                                               !.parsed = locals.parsed,
                                               !.result = locals.result,
                                               !.ranTry = locals.ranTry,
                                               !.fetches = CatchFetches(@),
                                               !.currentHour = currentHour,
                                               !.ranCatch = TRUE,
                                               !.threw = after.threw]]
        /\ Finally(i)

Locals(response, parsed, result, ranTry) ==
    [response |-> response, parsed |-> parsed, result |-> result, ranTry |-> ranTry]

\* lines 8-59: the submit handler calls predictDeliveryTime, which runs up to
\* the first await with the form as it is now, one of `forms`
Submit(i, forms) ==
    /\ inv[i].pc = "idle"
    /\ \A j \in 1..(i - 1) : inv[j].pc # "idle"
    /\ \E form \in forms :
           inv' = [inv EXCEPT ![i] = [@ EXCEPT !.pc = "awaitFetch",
                                               !.originalText = button.text,
                                               !.form = form,
                                               !.payload = Payload(form),
                                               !.body = JSONstringify(Payload(form)),
                                               !.probe = health,
                                               !.fetches = IssueFetch(@)]]
    /\ button' = [text |-> "Predicting...", disabled |-> TRUE]
    /\ UNCHANGED <<sink, timers, leaflet, health, calc>>

\* the remote call hangs: from now on the pending promise (fetch at line 53,
\* response.json() at line 65) neither resolves nor rejects
Stalls(i) ==
    /\ inv[i].pc \in {"awaitFetch", "awaitJson"}
    /\ ~inv[i].stalled
    /\ inv' = [inv EXCEPT ![i].stalled = TRUE]
    /\ UNCHANGED <<button, sink, timers, leaflet, health, calc>>

\* line 53: fetch rejects (connection refused, DNS failure); the clock shows
\* one of `hours`
FetchRejects(i, hours) ==
    /\ inv[i].pc = "awaitFetch"
    /\ ~inv[i].stalled
    /\ \E currentHour \in hours :
           Fallback(i, "transport", Page, Locals("none", FALSE, NoResult, FALSE),
                    currentHour)
    /\ UNCHANGED <<health, calc>>

\* lines 53-65: fetch resolves with a response, ok or not (HTTP 500)
FetchResolves(i, hours) ==
    /\ inv[i].pc = "awaitFetch"
    /\ ~inv[i].stalled
    /\ \E ok \in BOOLEAN :
           IF ResponseFailed(ok)
           THEN \E currentHour \in hours :
                    Fallback(i, "status", Page,
                             Locals(IF ok THEN "ok" ELSE "notOk", FALSE, NoResult, FALSE),
                             currentHour)
           ELSE /\ inv' = [inv EXCEPT ![i].pc = "awaitJson",
                                      ![i].response = IF ok THEN "ok" ELSE "notOk"]
                /\ UNCHANGED <<button, sink, timers, leaflet>>
    /\ UNCHANGED <<health, calc>>

\* line 65: response.json() rejects, the body is not JSON
JsonRejects(i, hours) ==
    /\ inv[i].pc = "awaitJson"
    /\ ~inv[i].stalled
    /\ \E currentHour \in hours :
           Fallback(i, "body", Page, Locals(inv[i].response, FALSE, NoResult, FALSE),
                    currentHour)
    /\ UNCHANGED <<health, calc>>

\* lines 65-135: response.json() resolves with one of `results`.  Line 67
\* throws on the failure flag; otherwise the rest of the try block runs, and
\* when it throws (no factors: TypeError at line 88; updateMap at line 94)
\* the catch block runs on the page that the try block left.
JsonResolves(i, results, hours) ==
    /\ inv[i].pc = "awaitJson"
    /\ ~inv[i].stalled
    /\ \E result \in results :
           IF ResultFailed(result)
           THEN \E currentHour \in hours :
                    Fallback(i, "flag", Page,
                             Locals(inv[i].response, TRUE, result, FALSE), currentHour)
           ELSE \E after \in {TryDisplay(Page, i, result, inv[i].form.distance)} :
                    IF after.threw
                    THEN \E currentHour \in hours :
                             Fallback(i, IF result.hasFactors THEN "map" ELSE "factors",
                                      after, Locals(inv[i].response, TRUE, result, TRUE),
                                      currentHour)
                    ELSE /\ sink' = after.sink
                         /\ timers' = after.timers
                         /\ leaflet' = after.leaflet
                         /\ inv' = [inv EXCEPT ![i] = [@ EXCEPT !.pc = "done",
                                                                !.parsed = TRUE,
                                                                !.result = result,
                                                                !.ranTry = TRUE]]
                         /\ Finally(i)
    /\ UNCHANGED <<health, calc>>

\* ElapseMs milliseconds pass: the browser runs the timer callbacks due in them
Elapse ==
    /\ timers # <<>>
    /\ \E after \in {RunTimers(Page, ElapseMs)} :
           /\ sink' = after.sink
           /\ timers' = after.timers
    /\ UNCHANGED <<button, inv, leaflet, health, calc>>

-----------------------------------------------------------------------------
(* testBackendConnection, lines 277-289 *)

\* fetch(API_BASE_URL + '/health') settles: "ok" (returns true), "notOk"
\* (returns undefined), "failed" (the fetch rejected, returns false)
HealthSettles(outcome) ==
    /\ health = "pending"
    /\ health' = outcome
    /\ UNCHANGED <<button, inv, sink, timers, leaflet, calc>>

-----------------------------------------------------------------------------
(* The environment: what the user types, what the backend answers, the clock *)

Invocations == 1..NumInvocations

Weathers == {"Clear", "Cloudy", "Hot", "Rain", "Heavy Rain"}

Traffics == {"Low", "Medium", "High", "Very High"}

Hours == 0..23

\* distances on each side of the threshold of line 172, an empty field
\* (parseFloat gives NaN) and a negative one
FormDistances == {0, 50, 101, 125, NaN, 0 - 10}

\* an item count, or an empty field (parseInt gives NaN)
FormItems == {0, MaxItems, NaN}

\* the forms of Spec: every weather (and "", a select without a value) in
\* low traffic, every traffic in clear weather, and the worst of both
Forms ==
    { f \in [restaurant : {"Faasos"}, distance : FormDistances,
             numItems : FormItems, weather : Weathers \cup {""},
             traffic : Traffics \cup {""}] :
        \/ f.traffic = "Low"
        \/ f.weather = "Clear"
        \/ (f.weather = "Heavy Rain" /\ f.traffic = "Very High") }

\* the forms of SpecOverlap
FewForms ==
    { [restaurant |-> "Faasos", distance |-> 50, numItems |-> 2,
       weather |-> "Clear", traffic |-> "Low"],
      [restaurant |-> "Corner Cafe", distance |-> 120, numItems |-> 3,
       weather |-> "Heavy Rain", traffic |-> "Very High"],
      [restaurant |-> "", distance |-> NaN, numItems |-> NaN,
       weather |-> "Rain", traffic |-> "High"] }

FewHours == {10, 20}

\* the hours of SpecLive: off peak, the lunch peak and the dinner peak, by day
\* and around midnight
LiveHours == {0, 10, 12, 14, 20, 23}

\* the forms of SpecNames: 5.0 km, Clear, Low, 2 items from a restaurant of
\* the table, from one that is not, from one without a name, and from
\* restaurants named as a property of Object.prototype is
NameForms ==
    [restaurant : RestaurantNames
                      \cup {"Corner Cafe", "", "constructor", "toString", "__proto__"},
     distance : {50}, numItems : {2}, weather : {"Clear"}, traffic : {"Low"}]

RemoteFactors ==
    [weather_impact |-> "Moderate", traffic_impact |-> "Significant",
     distance_factor |-> "Medium", peak_hour |-> "Yes (+15%)"]

\* the bodies the backend may answer with: success with any two integers,
\* success without factors, and the failure flag
Results ==
    [success : {TRUE}, hasFactors : {TRUE}, estimated_time : {0 - 5, 0, 30},
     confidence : {0 - 5, 90, 150}, factors : {RemoteFactors}]
    \cup { [NoResult EXCEPT !.success = TRUE, !.estimated_time = 30,
                            !.confidence = 90],
           NoResult }

FewResults ==
    { r \in Results : r.success /\ r.hasFactors
                        => r.estimated_time = r.confidence - 60 }

\* the bodies of SpecLive: those of FewResults, and a success whose
\* estimated_time is 0
LiveResults ==
    FewResults \cup { r \in Results : r.success /\ r.hasFactors
                                        /\ r.estimated_time = 0 /\ r.confidence = 90 }

-----------------------------------------------------------------------------
(* Specifications *)

NoArgs == [distance |-> 0, weather |-> "", traffic |-> "", hour |-> 0, items |-> 0]

\* the result elements as index.html ships them
BlankSink ==
    [active |-> FALSE, timeValue |-> Blank, confidenceFill |-> Blank,
     confidenceText |-> [percent |-> Blank, offline |-> FALSE],
     routeDistance |-> Blank, weatherImpact |-> "", trafficImpact |-> "",
     distanceFactor |-> "", peakHour |-> ""]

\* the page after DOMContentLoaded (lines 296-304): the health probe is in
\* flight, the submit handler is installed, nothing was predicted yet
Init ==
    /\ button = [text |-> "Predict", disabled |-> FALSE]
    /\ inv = [i \in Invocations |-> IdleInvocation]
    /\ sink = BlankSink
    /\ timers = <<>>
    /\ leaflet = [map |-> FALSE, routeLayer |-> "none"]
    /\ health = "pending"
    /\ calc = [args |-> NoArgs, done |-> FALSE,
               out |-> calculateDeliveryTime(0, "", "", 0, 0)]

\* one invocation, any form; the health probe stays in flight (SpecOverlap
\* lets it settle)
Next ==
    \/ Submit(1, Forms)
    \/ Stalls(1)
    \/ FetchRejects(1, Hours)
    \/ FetchResolves(1, Hours)
    \/ JsonRejects(1, Hours)
    \/ JsonResolves(1, Results, Hours)
    \/ Elapse

Spec == Init /\ [][Next]_vars

\* NumInvocations invocations that may overlap, a few forms
NextOverlap ==
    \/ \E i \in Invocations : Submit(i, FewForms)
    \/ \E i \in Invocations : Stalls(i)
    \/ \E i \in Invocations : FetchRejects(i, FewHours)
    \/ \E i \in Invocations : FetchResolves(i, FewHours)
    \/ \E i \in Invocations : JsonRejects(i, FewHours)
    \/ \E i \in Invocations : JsonResolves(i, FewResults, FewHours)
    \/ Elapse
    \/ \E outcome \in {"ok", "notOk", "failed"} : HealthSettles(outcome)

SpecOverlap == Init /\ [][NextOverlap]_vars

\* one invocation, the restaurant names
NextNames ==
    \/ Submit(1, NameForms)
    \/ Stalls(1)
    \/ FetchRejects(1, FewHours)
    \/ FetchResolves(1, FewHours)
    \/ JsonRejects(1, FewHours)
    \/ JsonResolves(1, FewResults, FewHours)
    \/ Elapse

SpecNames == Init /\ [][NextNames]_vars

\* One invocation with a few forms, under the scheduling that the browser
\* guarantees: a timer that is due runs, and a promise that is not stalled
\* settles.  Nothing obliges the remote call not to stall.
NextLive ==
    \/ Submit(1, FewForms)
    \/ Stalls(1)
    \/ FetchRejects(1, LiveHours)
    \/ FetchResolves(1, LiveHours)
    \/ JsonRejects(1, LiveHours)
    \/ JsonResolves(1, LiveResults, LiveHours)
    \/ Elapse

\* the promise awaited by invocation 1 settles, one way or the other
Settles ==
    \/ FetchRejects(1, LiveHours)
    \/ FetchResolves(1, LiveHours)
    \/ JsonRejects(1, LiveHours)
    \/ JsonResolves(1, LiveResults, LiveHours)

SpecLive ==
    /\ Init
    /\ [][NextLive]_vars
    /\ WF_vars(Settles)
    /\ WF_vars(Elapse)

\* calculateDeliveryTime applied to every argument tuple of the bounded domain
InitCalc ==
    /\ button = [text |-> "Predict", disabled |-> FALSE]
    /\ inv = [i \in Invocations |-> IdleInvocation]
    /\ sink = BlankSink
    /\ timers = <<>>
    /\ leaflet = [map |-> FALSE, routeLayer |-> "none"]
    /\ health = "pending"
    /\ \E d \in 0..MaxDistance, w \in Weathers, t \in Traffics, h \in Hours,
          n \in 0..MaxItems :
           calc = [args |-> [distance |-> d, weather |-> w, traffic |-> t,
                             hour |-> h, items |-> n],
                   done |-> FALSE,
                   out |-> calculateDeliveryTime(0, "", "", 0, 0)]

Calculate ==
    /\ ~calc.done
    /\ calc' = [calc EXCEPT
                  !.done = TRUE,
                  !.out = calculateDeliveryTime(calc.args.distance, calc.args.weather,
                                                calc.args.traffic, calc.args.hour,
                                                calc.args.items)]
    /\ UNCHANGED <<button, inv, sink, timers, leaflet, health>>

NextCalc == Calculate

SpecCalc == InitCalc /\ [][NextCalc]_vars

-----------------------------------------------------------------------------
(* What the claims speak of *)

\* a valid request: finite non-negative numbers, weather and traffic among
\* the keys of the tables of lines 143-156
ValidForm(f) ==
    /\ ~IsNaN(f.distance) /\ f.distance >= 0
    /\ ~IsNaN(f.numItems) /\ f.numItems >= 0
    /\ f.weather \in Weathers
    /\ f.traffic \in Traffics

\* what the local heuristic answers for the form of invocation i at the hour
\* its catch block read
Heuristic(i) ==
    calculateDeliveryTime(inv[i].form.distance, inv[i].form.weather,
                          inv[i].form.traffic, inv[i].currentHour,
                          inv[i].form.numItems)

TimersOf(i, kind) ==
    {k \in 1..Len(timers) : timers[k].owner = i /\ timers[k].kind = kind}

\* invocation i is over and its 500 ms timer has written the confidence
ConfidenceShown(i) == inv[i].pc = "done" /\ TimersOf(i, "timeout") = {}

\* invocation i is over and #timeValue shows the end value of its animation
TimeShown(i) ==
    /\ inv[i].pc = "done"
    /\ sink.timeValue # Blank
    /\ \A k \in TimersOf(i, "interval") :
           timers[k].current = Mul(timers[k].endv, timers[k].duration)

\* the four factor fields of the page
SinkFactors ==
    <<sink.weatherImpact, sink.trafficImpact, sink.distanceFactor, sink.peakHour>>

\* the remote call of invocation i failed: the fetch rejected, the status was
\* not 2xx, or the body carried success = false
RemoteFailure(i) ==
    /\ inv[i].pc = "done"
    /\ \/ inv[i].failure = "transport"
       \/ inv[i].response = "notOk"
       \/ (inv[i].parsed /\ ~inv[i].result.success)

\* the page shows the fallback result of invocation i, as far as its timers
\* have run
FallbackShown(i) ==
    /\ inv[i].ranCatch /\ ~inv[i].ranTry
    /\ sink.active
    /\ SinkFactors = <<Heuristic(i).weatherImpact, Heuristic(i).trafficImpact,
                       Heuristic(i).distanceFactor, Heuristic(i).peakHour>>
    /\ ConfidenceShown(i) =>
           sink.confidenceText = [percent |-> Sub(Heuristic(i).confidence, 10),
                                  offline |-> TRUE]
    /\ TimeShown(i) => sink.timeValue = Heuristic(i).time

-----------------------------------------------------------------------------
(* C1 *)

\* C1: every kind of remote failure (the fetch rejects, the status is not
\* 2xx, the body says success = false) ends in the catch block alone, and
\* the page then shows the result of the local heuristic for the form and
\* the hour, whatever the kind of failure: the four factors at once, the
\* confidence once the 500 ms timer ran, the time once the animation ended.
C1_FailuresFallBack ==
    \A i \in Invocations : RemoteFailure(i) => FallbackShown(i)

\* a body with success = false was answered, and the fallback result is shown
\* in full
C1_Witness ==
    /\ inv[1].parsed /\ ~inv[1].result.success
    /\ inv[1].pc = "done"
    /\ ConfidenceShown(1) /\ TimeShown(1)
    /\ sink.timeValue = Heuristic(1).time
    /\ ValidForm(inv[1].form)

-----------------------------------------------------------------------------
(* C2 *)

Defined(x) == ~IsNaN(x) /\ x # Blank

\* C2: for a valid request the catch block ends without throwing, and every
\* value it hands to the page is defined: the four factor strings at once,
\* the percentage and the end value held by its timers, and what the timers
\* have written.
C2_FallbackComplete ==
    \A i \in Invocations :
        (inv[i].pc = "done" /\ inv[i].ranCatch /\ ValidForm(inv[i].form)) =>
            /\ ~inv[i].threw
            /\ \A j \in 1..4 : SinkFactors[j] \notin {"undefined", ""}
            /\ \A k \in TimersOf(i, "timeout") : Defined(timers[k].percent)
            /\ \A k \in TimersOf(i, "interval") : Defined(timers[k].endv)
            /\ ConfidenceShown(i) => Defined(sink.confidenceText.percent)
            /\ TimeShown(i) => Defined(sink.timeValue)

\* a valid request in hot weather went through the catch block and its
\* timers have run
C2_Witness ==
    /\ inv[1].pc = "done" /\ inv[1].ranCatch /\ ~inv[1].ranTry
    /\ ValidForm(inv[1].form)
    /\ inv[1].form.weather = "Hot"
    /\ ConfidenceShown(1) /\ TimeShown(1)

-----------------------------------------------------------------------------
(* C3 *)

\* C3: for a valid request, whatever the page shows as confidence is within
\* 0..100 and whatever it shows as time is at least 0.
C3_ResultInRange ==
    \A i \in Invocations :
        (inv[i].pc = "done" /\ ValidForm(inv[i].form)) =>
            /\ ConfidenceShown(i) =>
                   (sink.confidenceText.percent >= 0
                    /\ sink.confidenceText.percent =< 100)
            /\ TimeShown(i) => sink.timeValue >= 0

-----------------------------------------------------------------------------
(* C4 *)

Max(a, b) == IF a >= b THEN a ELSE b

\* C4: after the catch block, the percentage that its 500 ms timer holds and
\* then writes is max(0, h - 10), h the confidence of the local heuristic for
\* the form and the hour.
C4_OfflinePenalty ==
    \A i \in Invocations :
        (inv[i].pc = "done" /\ inv[i].ranCatch) =>
            /\ ~ConfidenceShown(i) =>
                   \E k \in TimersOf(i, "timeout") :
                       /\ timers[k].offline
                       /\ timers[k].percent = Max(0, Heuristic(i).confidence - 10)
            /\ ConfidenceShown(i) =>
                   /\ sink.confidenceText.percent = Max(0, Heuristic(i).confidence - 10)
                   /\ sink.confidenceFill = Max(0, Heuristic(i).confidence - 10)

\* the fallback confidence of the worst case, 62 - 10, is on the page
C4_Witness ==
    /\ inv[1].pc = "done" /\ inv[1].ranCatch
    /\ ConfidenceShown(1)
    /\ Heuristic(1).confidence = 62
    /\ sink.confidenceText = [percent |-> 52, offline |-> TRUE]

-----------------------------------------------------------------------------
(* C5 *)

\* C5: when a valid request is answered by a 2xx response with success = true
\* that carries its factors, the catch block does not run and the page shows
\* the response's values as they came: the four factor strings at once, the
\* confidence once the 500 ms timer ran, the time once the animation ended.
C5_RemoteVerbatim ==
    \A i \in Invocations :
        (/\ inv[i].pc = "done" /\ inv[i].response = "ok" /\ inv[i].parsed
         /\ inv[i].result.success /\ inv[i].result.hasFactors
         /\ ValidForm(inv[i].form)) =>
            /\ inv[i].ranTry /\ ~inv[i].ranCatch
            /\ SinkFactors = <<inv[i].result.factors.weather_impact,
                               inv[i].result.factors.traffic_impact,
                               inv[i].result.factors.distance_factor,
                               inv[i].result.factors.peak_hour>>
            /\ \A k \in TimersOf(i, "timeout") :
                   timers[k].percent = inv[i].result.confidence
            /\ \A k \in TimersOf(i, "interval") :
                   timers[k].endv = inv[i].result.estimated_time
            /\ ConfidenceShown(i) =>
                   sink.confidenceText = [percent |-> inv[i].result.confidence,
                                          offline |-> FALSE]
            /\ TimeShown(i) => sink.timeValue = inv[i].result.estimated_time

\* a success response with confidence 150 and time 30 is on the page, where
\* the heuristic would have said something else
C5_Witness ==
    /\ inv[1].pc = "done" /\ inv[1].result.success /\ inv[1].result.hasFactors
    /\ ValidForm(inv[1].form)
    /\ ConfidenceShown(1) /\ TimeShown(1)
    /\ TimersOf(1, "interval") = {}
    /\ sink.confidenceText = [percent |-> 150, offline |-> FALSE]
    /\ sink.timeValue = 30
    /\ SinkFactors[1] # weatherImpacts(inv[1].form.weather)

-----------------------------------------------------------------------------
(* C6 *)

\* C6: once a valid request is submitted, the invocation ends and has put a
\* result on the page, also when the remote call never completes.
C6_EventuallyResult ==
    (inv[1].pc = "awaitFetch" /\ ValidForm(inv[1].form)) ~> (inv[1].pc = "done")

-----------------------------------------------------------------------------
(* C7 *)

\* C7: an invocation has called fetch for POST /predict exactly once from
\* its start on, on the success path and after every failure.
C7_OneFetch ==
    \A i \in Invocations :
        /\ inv[i].pc = "idle" => inv[i].fetches = 0
        /\ inv[i].pc # "idle" => inv[i].fetches = 1

\* an invocation went through the catch block and has called fetch once
C7_Witness ==
    /\ inv[1].pc = "done" /\ inv[1].ranCatch
    /\ inv[1].failure = "status"
    /\ inv[1].fetches = 1

-----------------------------------------------------------------------------
(* C8 *)

\* a numeric field is malformed: distance or numItems is not finite, or
\* distance is negative
Malformed(f) ==
    \/ IsNaN(f.distance)
    \/ IsNaN(f.numItems)
    \/ (~IsNaN(f.distance) /\ f.distance < 0)

\* C8: an invocation whose form has a malformed numeric field issues no
\* POST /predict, runs neither the try display nor the catch block, and
\* leaves the page as it was.
C8_MalformedRejected ==
    \A i \in Invocations :
        (inv[i].pc # "idle" /\ Malformed(inv[i].form)) =>
            /\ inv[i].fetches = 0
            /\ ~inv[i].ranTry /\ ~inv[i].ranCatch
            /\ sink = BlankSink

-----------------------------------------------------------------------------
(* C9 *)

\* the multiplier tables of the specified algorithm, in hundredths and tenths
SpecifiedWeather(w) ==
    CASE w = "Clear" -> 100 [] w = "Cloudy" -> 105 [] w = "Hot" -> 110
      [] w = "Rain" -> 130 [] w = "Heavy Rain" -> 160

SpecifiedTraffic(t) ==
    CASE t = "Low" -> 10 [] t = "Medium" -> 12 [] t = "High" -> 15
      [] t = "Very High" -> 18

\* round((12 + 2 * n) + d * 4 * weather * traffic * (1.15 at a peak hour)),
\* the product taken as the doubles give it
SpecifiedTime(d, w, t, h, n) ==
    MathRound((12 + 2 * n) * BaseScale
                  + DoubleProduct(d, SpecifiedWeather(w), SpecifiedTraffic(t),
                                  IF h \in {12, 13, 14, 19, 20, 21} THEN 115 ELSE 100),
              BaseScale)

SpecifiedConfidence(d, w, t) ==
    85 - (IF w = "Heavy Rain" THEN 10 ELSE 0) - (IF t = "Very High" THEN 8 ELSE 0)
       - (IF d > 100 THEN 5 ELSE 0)

SpecifiedDistanceFactor(d) ==
    IF d > 70 THEN "High" ELSE IF d > 40 THEN "Medium" ELSE "Low"

\* C9: on every argument tuple of the bounded domain calculateDeliveryTime
\* returns the time, the confidence and the distance factor of the specified
\* algorithm; and 5.0 km, Clear, Low, hour 10, 2 items gives time 36,
\* confidence 85, distance factor Medium and peak hour "No".
C9_MatchesAlgorithm ==
    calc.done =>
        /\ calc.out.time = SpecifiedTime(calc.args.distance, calc.args.weather,
                                         calc.args.traffic, calc.args.hour,
                                         calc.args.items)
        /\ calc.out.confidence = SpecifiedConfidence(calc.args.distance,
                                                     calc.args.weather,
                                                     calc.args.traffic)
        /\ calc.out.distanceFactor = SpecifiedDistanceFactor(calc.args.distance)
        /\ calc.args = [distance |-> 50, weather |-> "Clear", traffic |-> "Low",
                        hour |-> 10, items |-> 2] =>
               /\ calc.out.time = 36
               /\ calc.out.confidence = 85
               /\ calc.out.distanceFactor = "Medium"
               /\ calc.out.peakHour = "No"

\* the scenario of the claim was computed
C9_Witness ==
    /\ calc.done
    /\ calc.args = [distance |-> 50, weather |-> "Clear", traffic |-> "Low",
                    hour |-> 10, items |-> 2]
    /\ calc.out.time = 36

-----------------------------------------------------------------------------
(* C10 *)

HeavyScenario ==
    [distance |-> 120, weather |-> "Heavy Rain", traffic |-> "Very High",
     hour |-> 20, items |-> 3]

\* C10 as claimed: 12.0 km, Heavy Rain, Very High, hour 20, 3 items gives time
\* 97, confidence 62, distance factor High and peak hour "Yes (+15%)".
C10_Claimed ==
    (calc.done /\ calc.args = HeavyScenario) =>
        /\ calc.out.time = 97
        /\ calc.out.confidence = 62
        /\ calc.out.distanceFactor = "High"
        /\ calc.out.peakHour = "Yes (+15%)"

\* C10 as amended: 12.0 km, Heavy Rain, Very High, hour 20, 3 items gives time
\* 177 (prepTime 18 plus a base time of 12 * 4 * 1.6 * 1.8 * 1.15 = 158.976,
\* rounded), confidence 62, distance factor High and peak hour "Yes (+15%)".
C10_HeavyScenario ==
    (calc.done /\ calc.args = HeavyScenario) =>
        /\ calc.out.time = 177
        /\ BaseTime(120, "Heavy Rain", "Very High", 20) = 158976000
        /\ calc.out.confidence = 62
        /\ calc.out.distanceFactor = "High"
        /\ calc.out.peakHour = "Yes (+15%)"

\* the scenario was computed
C10_Witness ==
    /\ calc.done
    /\ calc.args = HeavyScenario
    /\ calc.out.time = 177

-----------------------------------------------------------------------------
(* C11 *)

\* the traffic levels by severity
TrafficOrder == <<"Low", "Medium", "High", "Very High">>

TrafficRank(t) == CHOOSE k \in 1..4 : TrafficOrder[k] = t

\* C11: with distance, weather, hour and item count held fixed, the time that
\* calculateDeliveryTime returns for a more severe traffic level is never less
\* than the time it returned for the level at hand.
C11_TrafficMonotone ==
    calc.done =>
        \A t \in Traffics :
            TrafficRank(t) > TrafficRank(calc.args.traffic) =>
                calculateDeliveryTime(calc.args.distance, calc.args.weather, t,
                                      calc.args.hour, calc.args.items).time
                    >= calc.out.time

\* 12.5 km in medium traffic was computed, and high traffic takes longer
C11_Witness ==
    /\ calc.done
    /\ calc.args.distance = 125 /\ calc.args.traffic = "Medium"
    /\ calculateDeliveryTime(calc.args.distance, calc.args.weather, "High",
                             calc.args.hour, calc.args.items).time
           > calc.out.time

-----------------------------------------------------------------------------
(* C12 *)

\* the hours of the lunch and dinner peaks
SpecifiedPeak == {12, 13, 14, 19, 20, 21}

\* round(prepTime + 1.15 * travel), travel the numerator over BaseScale of
\* the non-peak travel time (a multiple of 100, its last factor being 1.00),
\* the product taken as the doubles give it
SurchargedTime(d, w, t, n, travel) ==
    MathRound((12 + 2 * n) * BaseScale
                  + ((travel \div 100) * 115
                     - DoubleLoss(d, SpecifiedWeather(w), SpecifiedTraffic(t), 115)),
              BaseScale)

\* C12: calculateDeliveryTime answers peakHour "Yes (+15%)" exactly at the
\* hours 12, 13, 14, 19, 20, 21 and "No" at every other hour; and at a peak
\* hour its time is round(prepTime + 1.15 * the non-peak travel time) and is
\* not less than its time for the same inputs at any non-peak hour.
C12_PeakSurcharge ==
    calc.done =>
        /\ calc.out.peakHour =
               (IF calc.args.hour \in SpecifiedPeak THEN "Yes (+15%)" ELSE "No")
        /\ calc.args.hour \in SpecifiedPeak =>
               \A g \in Hours \ SpecifiedPeak :
                   /\ calc.out.time =
                          SurchargedTime(calc.args.distance, calc.args.weather,
                                         calc.args.traffic, calc.args.items,
                                         BaseTime(calc.args.distance, calc.args.weather,
                                                  calc.args.traffic, g))
                   /\ calc.out.time >=
                          calculateDeliveryTime(calc.args.distance, calc.args.weather,
                                                calc.args.traffic, g,
                                                calc.args.items).time

\* 5.0 km, Clear, Low, 2 items at 19 h: 16 + 1.15 * 20 = 39, against 36 at 10 h
C12_Witness ==
    /\ calc.done
    /\ calc.args = [distance |-> 50, weather |-> "Clear", traffic |-> "Low",
                    hour |-> 19, items |-> 2]
    /\ calc.out.peakHour = "Yes (+15%)"
    /\ calc.out.time = 39
    /\ calculateDeliveryTime(50, "Clear", "Low", 10, 2).time = 36

-----------------------------------------------------------------------------
(* C13 *)

\* C13: the body of POST /predict carries a cuisine: the entry of the table
\* when the restaurant name is a key of the table, and "North Indian" for
\* every other name, the empty one included.
C13_CuisineDefault ==
    \A i \in Invocations :
        inv[i].pc # "idle" =>
            inv[i].body.cuisine =
                (IF inv[i].form.restaurant \in RestaurantNames
                 THEN restaurantCuisine(inv[i].form.restaurant)
                 ELSE "North Indian")

-----------------------------------------------------------------------------
(* C14 *)

\* C14: the health probe gates nothing.  Whatever testBackendConnection has
\* come to (pending, 2xx, another status, rejected), a step that starts an
\* invocation calls fetch for POST /predict once with the body made from the
\* form; and the step in which the probe settles changes nothing that
\* predictDeliveryTime reads: not the button, the invocations, the page, the
\* timers or the map.
C14_HealthNeverGates ==
    [][/\ health' # health => UNCHANGED <<button, inv, sink, timers, leaflet>>
       /\ \A i \in Invocations :
              (inv[i].pc = "idle" /\ inv'[i].pc # "idle") =>
                  /\ inv'[i].pc = "awaitFetch"
                  /\ inv'[i].fetches = 1
                  /\ inv'[i].body = JSONstringify(Payload(inv'[i].form))
                  /\ health' = health]_vars

\* one invocation started while the probe was pending, the next one after the
\* probe had failed, and both called the backend
C14_Witness ==
    /\ inv[1].pc # "idle" /\ inv[1].probe = "pending" /\ inv[1].fetches = 1
    /\ inv[2].pc # "idle" /\ inv[2].probe = "failed" /\ inv[2].fetches = 1
    /\ health = "failed"

-----------------------------------------------------------------------------
(* C15 *)

\* C15: an invocation on a valid request goes from idle to the await of the
\* remote call once, and ends having written the page from exactly one of
\* the two results: the display of the try block (the remote response) or
\* the catch block (the local heuristic), never both, also when the success
\* response carries no factors.
C15_OnePath ==
    \A i \in Invocations :
        /\ inv[i].fetches =< 1
        /\ (inv[i].pc = "done" /\ ValidForm(inv[i].form)) =>
               /\ inv[i].ranTry \/ inv[i].ranCatch
               /\ ~(inv[i].ranTry /\ inv[i].ranCatch)
               /\ \A j, k \in TimersOf(i, "timeout") :
                      timers[j].offline = timers[k].offline

-----------------------------------------------------------------------------
(* C16 *)

\* the four factors and the confidence text of the result that invocation i
\* surfaced: those of the local heuristic when its catch block ran, those of
\* the response otherwise
SurfacedFactors(i) ==
    IF inv[i].ranCatch
    THEN <<Heuristic(i).weatherImpact, Heuristic(i).trafficImpact,
           Heuristic(i).distanceFactor, Heuristic(i).peakHour>>
    ELSE <<inv[i].result.factors.weather_impact, inv[i].result.factors.traffic_impact,
           inv[i].result.factors.distance_factor, inv[i].result.factors.peak_hour>>

SurfacedConfidence(i) ==
    IF inv[i].ranCatch
    THEN [percent |-> FallbackConfidence(Heuristic(i)), offline |-> TRUE]
    ELSE [percent |-> RemoteConfidence(inv[i].result), offline |-> FALSE]

\* C16: once the page shows a confidence, the confidence and the four factors
\* it shows are those of one and the same result: there is an invocation whose
\* result has both.
C16_NoPartialResult ==
    sink.confidenceText.percent # Blank =>
        \E i \in Invocations :
            /\ inv[i].pc = "done"
            /\ SinkFactors = SurfacedFactors(i)
            /\ sink.confidenceText = SurfacedConfidence(i)

-----------------------------------------------------------------------------
(* C17 *)

\* the time of the result that invocation i surfaced
SurfacedTime(i) ==
    IF inv[i].ranCatch THEN Heuristic(i).time ELSE RemoteTime(inv[i].result)

\* C17: when the second invocation started while the first one was awaiting
\* its remote call, then once both are over and every timer has run out the
\* page shows the result of the second one, the request submitted later:
\* its factors, its confidence and its time.
C17_NewestWins ==
    (/\ inv[1].pc = "done" /\ inv[2].pc = "done"
     /\ inv[2].originalText = "Predicting..."
     /\ timers = <<>>) =>
        /\ SinkFactors = SurfacedFactors(2)
        /\ sink.confidenceText = SurfacedConfidence(2)
        /\ sink.timeValue = SurfacedTime(2)

-----------------------------------------------------------------------------
(* C18 *)

\* the enum domains of the request, each value spelled as the form sends it
\* (HeavyRain is 'Heavy Rain', VeryHigh is 'Very High')
EnumWeathers == {"Clear", "Cloudy", "Hot", "Rain", "Heavy Rain"}

EnumTraffics == {"Low", "Medium", "High", "Very High"}

\* C18: every weather and every traffic value of the request's enum domain
\* has an entry in the multiplier table and in the impact table, so that
\* calculateDeliveryTime returns a number as time and two impact strings for
\* every value of the domain, never NaN and never undefined.
C18_TablesTotal ==
    /\ \A w \in EnumWeathers :
           ~IsNaN(weatherMultipliers(w)) /\ weatherImpacts(w) # "undefined"
    /\ \A t \in EnumTraffics :
           ~IsNaN(trafficMultipliers(t)) /\ trafficImpacts(t) # "undefined"
    /\ (calc.done /\ calc.args.weather \in EnumWeathers
                  /\ calc.args.traffic \in EnumTraffics) =>
           /\ ~IsNaN(calc.out.time)
           /\ calc.out.weatherImpact # "undefined"
           /\ calc.out.trafficImpact # "undefined"

\* the last value of each domain was computed: 1.0 km in heavy rain and very
\* high traffic, with its two impact strings
C18_Witness ==
    /\ calc.done
    /\ calc.args.distance = 10
    /\ calc.args.weather = "Heavy Rain" /\ calc.args.traffic = "Very High"
    /\ calc.out.weatherImpact = "High" /\ calc.out.trafficImpact = "Very High"
    /\ ~IsNaN(calc.out.time)

-----------------------------------------------------------------------------
(* C19 *)

\* C19: for every end value e >= 0, 0 included, that line 76 hands to
\* animateValue('timeValue', 0, e, 1000), the interval timer is eventually
\* cancelled and #timeValue then shows e.  (An invocation that is over keeps
\* its result, so e is RemoteTime(inv[1].result) on both sides.)
C19_AnimationEnds ==
    (/\ inv[1].pc = "done" /\ inv[1].ranTry /\ ~inv[1].ranCatch
     /\ RemoteTime(inv[1].result) >= 0)
        ~> (/\ TimersOf(1, "interval") = {}
            /\ sink.timeValue = RemoteTime(inv[1].result))

-----------------------------------------------------------------------------
(* C20 *)

InProgress(i) == inv[i].pc \in {"awaitFetch", "awaitJson"}

\* C20: while an invocation is in progress the button is disabled and reads
\* "Predicting..."; whenever none is in progress the button is enabled and
\* reads what it read before the first invocation, however the invocations
\* ended and whether or not they overlapped.
C20_ButtonRestored ==
    /\ (\E i \in Invocations : InProgress(i)) =>
           button = [text |-> "Predicting...", disabled |-> TRUE]
    /\ (\A i \in Invocations : ~InProgress(i)) =>
           button = [text |-> "Predict", disabled |-> FALSE]

====
